---- MODULE Spec2Model ----
(***************************************************************************)
(* A model of the Bitcoin-family core of the wallet plugin:                *)
(*   - the UTXO accessor (BTCNetworkBase: initialize, disconnect,          *)
(*     fetchBalance, verifySpendableUtxos, calculateBalance, getUtxos),    *)
(*   - the transaction builder (CreatePsbt),                               *)
(*   - the broadcaster (broadcastTransaction),                             *)
(*   - the send flow (sendBTCTransaction) and the fee lookup (GasFees),    *)
(*   - several callers on one accessor instance, and several send flows    *)
(*     in flight at once.                                                  *)
(* Every HTTP call is a suspension point; what the remote end answers is   *)
(* chosen nondeterministically at that point.                              *)
(***************************************************************************)
EXTENDS Integers, Sequences, FiniteSets, TLC

VARIABLES
  \* ---- the UTXO accessor (one BTCNetworkBase instance) ----
  network,      \* "btc" | "btctestnet": the concrete subclass of the instance
  initialized,  \* BTCNetworkBase.initialized
  utxos,        \* BTCNetworkBase.utxos, the cache
  pc,           \* position of the caller: "idle" | "request" | "verify"
  epIdx,        \* index of the endpoint fetchBalance is at
  pending,      \* confirmedUtxos awaiting verifySpendableUtxos
  call,         \* the call in progress or last completed: [op, addr, data]
  result,       \* what the last completed call returned or threw
  reqs          \* HTTP requests issued by the current / last call

accVars == <<network, initialized, utxos, pc, epIdx, pending, call, result, reqs>>

VARIABLES
  \* ---- one call of CreatePsbt ----
  psbtArgs,     \* the arguments of the call
  psbtRes       \* what the call returned or threw, and the builder's tx at that point

psbtVars == <<psbtArgs, psbtRes>>

VARIABLES
  \* ---- one call of broadcastTransaction ----
  bcast         \* its network, loop position, locals (lastError, lastResponseData),
                \* the attempts made so far and its result

VARIABLES
  \* ---- one call of sendBTCTransaction ----
  sendArgs,     \* the arguments and what the remote ends will answer
  sendRes       \* what the call returned or threw, and the calls it made

sendVars == <<sendArgs, sendRes>>

VARIABLES
  \* ---- one call of fetchBalance, with what the remote ends answer during it ----
  fetchArgs,    \* the accessor before the call, the address, the endpoints' answers
  fetchRes      \* the accessor after the call, what it returned or threw, what it did

fetchVars == <<fetchArgs, fetchRes>>

VARIABLES
  \* ---- one call of GasFees.fetchGasFees ----
  feeArgs,      \* the network and what the fee endpoint answers
  feeRes        \* what the call returned

feeVars == <<feeArgs, feeRes>>

VARIABLES
  \* ---- callers that were handed the same accessor instance ----
  callers       \* per caller: where its fetchBalance stands, and what it last got

VARIABLES
  \* ---- sendBTCTransaction invocations in flight at the same time ----
  sends         \* the accessor instances constructed so far, and each invocation's locals

vars == <<accVars, psbtVars, bcast, sendVars, fetchVars, feeVars, callers, sends>>

(***************************************************************************)
(* Bounds of the model.                                                    *)
(***************************************************************************)
\* longest UTXO list an explorer endpoint answers with
MaxEntries == 2
\* longest UTXO list handed to CreatePsbt
MaxUtxos == 2

Networks == {"btc", "btctestnet"}
Addresses == {"addrA", "addrB"}

SeqsUpTo(S, n) == UNION {[1..k -> S] : k \in 0..n}

Max(a, b) == IF a >= b THEN a ELSE b

(***************************************************************************)
(* UTXO entries as an explorer endpoint may list them.  txid = "" stands   *)
(* for an absent txid, value = 0 for a zero or absent value, confirmed =   *)
(* FALSE for status.confirmed false or status absent, voutType for         *)
(* `typeof utxo.vout`.                                                     *)
(***************************************************************************)
Utxo(t, v, vt, val, c) ==
  [txid |-> t, vout |-> v, voutType |-> vt, value |-> val, confirmed |-> c]

ExplorerEntries ==
  { Utxo("a", 0, "number", 50000, TRUE),
    Utxo("b", 1, "number", 30000, TRUE),
    Utxo("c", 0, "number", 20000, FALSE),
    Utxo("d", 0, "number", 0, TRUE),
    Utxo("e", 0, "number", -5, TRUE),
    Utxo("", 0, "number", 1000, TRUE),
    Utxo("f", 0, "undefined", 1000, TRUE) }

\* The lists calculateBalance is called on from outside.
BalanceLists ==
  { <<>>,
    <<Utxo("a", 0, "number", 50000, TRUE)>>,
    <<Utxo("a", 0, "number", 50000, TRUE), Utxo("b", 1, "number", 30000, TRUE)>>,
    <<Utxo("b", 1, "number", 30000, TRUE), Utxo("b", 1, "number", 30000, TRUE)>>,
    <<Utxo("a", 0, "number", 50000, TRUE), Utxo("e", 0, "number", -5, TRUE)>> }

\* What axios.get on an address endpoint can produce: a rejected promise (network
\* error, timeout, non-2xx status), a 2xx status other than 200, a 200 whose body is
\* no array, or a 200 with an array of entries.
ExplorerResponses ==
  { [kind |-> k, data |-> <<>>] : k \in {"throw", "non200", "notArray"} }
  \cup { [kind |-> "array", data |-> d] : d \in SeqsUpTo(ExplorerEntries, MaxEntries) }

\* What the outspends lookup of one UTXO can produce: the lookup fails (throws, non-200,
\* no array), or the array's entry at the output's index is absent, spent or unspent.
OutspendAnswers == {"fail", "missing", "spent", "unspent"}

InitOutcomes == {"ok200", "other2xx", "throw"}

\* getEndpoints(): both subclasses list two address endpoints.
NumEndpoints(n) == 2

getNetworkName(n) == IF n = "btc" THEN "BTC" ELSE "BTCTestnet"

(***************************************************************************)
(* Pure parts of BTCNetworkBase.                                           *)
(***************************************************************************)
\* The predicate of the filter at fetchBalance: truthiness of status?.confirmed,
\* value and txid, and typeof vout === 'number'.
IsConfirmedUtxo(u) ==
  /\ u.confirmed
  /\ u.value # 0
  /\ u.voutType = "number"
  /\ u.txid # ""

ConfirmedFilter(data) == SelectSeq(data, IsConfirmedUtxo)

\* response.data[utxo.vout] of the outspends array: a negative index names no
\* element of a parsed JSON array.
OutputStatus(u, answer) ==
  IF answer = "fail" THEN "fail"
  ELSE IF u.vout < 0 THEN "missing"
  ELSE answer

\* An output counts as spendable unless the lookup reported it spent.
IsSpendable_UnlessSpent(u, answer) == OutputStatus(u, answer) # "spent"

\* outputStatus && !outputStatus.spent, inside a lookup that succeeded.
IsSpendable(u, answer) == OutputStatus(u, answer) = "unspent"

RECURSIVE VerifyFrom(_, _, _)
VerifyFrom(list, answers, i) ==
  IF i > Len(list) THEN <<>>
  ELSE (IF IsSpendable(list[i], answers[i]) THEN <<list[i]>> ELSE <<>>)
       \o VerifyFrom(list, answers, i + 1)

\* verifySpendableUtxos starting its loop at the second entry.
verifySpendableUtxos_SkipFirst(list, answers) == VerifyFrom(list, answers, 2)

verifySpendableUtxos(list, answers) == VerifyFrom(list, answers, 1)

RECURSIVE SumValues(_)
SumValues(data) ==
  IF data = <<>> THEN 0 ELSE Head(data).value + SumValues(Tail(data))

\* The balance converted to the major unit (whole BTC).
calculateBalance_MajorUnit(data) == SumValues(data) \div 100000000

\* data.reduce((acc, utxo) => acc + utxo.value, 0): the sum, in satoshis.
calculateBalance(data) == SumValues(data)

(***************************************************************************)
(* Results of calls.                                                       *)
(***************************************************************************)
Call(op, addr, data) == [op |-> op, addr |-> addr, data |-> data]

Res(status, balance, list, addr) ==
  [status |-> status, balance |-> balance, list |-> list, addr |-> addr]

NoResult == Res("running", 0, <<>>, "")

(***************************************************************************)
(* The accessor: state after construction.                                 *)
(***************************************************************************)
AccInit ==
  /\ network \in Networks
  /\ initialized = FALSE
  /\ utxos = <<>>
  /\ pc = "idle"
  /\ epIdx = 0
  /\ pending = <<>>
  /\ call = Call("new", "", <<>>)
  /\ result = NoResult
  /\ reqs = 0

\* The caller awaits each call before it makes the next.
CanCall == pc = "idle"

\* Number of requests initialize() issues: up to and including the first 200.
RECURSIVE FirstOk(_, _)
FirstOk(outcomes, i) ==
  IF i > Len(outcomes) THEN 0
  ELSE IF outcomes[i] = "ok200" THEN i
  ELSE FirstOk(outcomes, i + 1)

\* initialize() dropping the cache when every probe fails.
Initialize_ClearsCache(outcomes) ==
  /\ CanCall
  /\ call' = Call("initialize", "", <<>>)
  /\ LET k == FirstOk(outcomes, 1) IN
       IF k > 0
       THEN /\ initialized' = TRUE
            /\ reqs' = k
            /\ result' = Res("ok", 0, <<>>, "")
            /\ utxos' = utxos
       ELSE /\ initialized' = FALSE
            /\ reqs' = Len(outcomes)
            /\ result' = Res("InitFailed", 0, <<>>, "")
            /\ utxos' = <<>>
  /\ UNCHANGED <<network, pc, epIdx, pending>>

\* initialize() without the assignment in its outer catch block: a failed call
\* leaves the flag as it was.
Initialize_KeepsFlag(outcomes) ==
  /\ CanCall
  /\ call' = Call("initialize", "", <<>>)
  /\ LET k == FirstOk(outcomes, 1) IN
       IF k > 0
       THEN /\ initialized' = TRUE
            /\ reqs' = k
            /\ result' = Res("ok", 0, <<>>, "")
       ELSE /\ initialized' = initialized
            /\ reqs' = Len(outcomes)
            /\ result' = Res("InitFailed", 0, <<>>, "")
  /\ UNCHANGED <<network, utxos, pc, epIdx, pending>>

\* initialize(): probe each endpoint in turn; the first 200 sets the flag; when the
\* loop ends without one, the flag is cleared and the call throws.
Initialize(outcomes) ==
  /\ CanCall
  /\ call' = Call("initialize", "", <<>>)
  /\ LET k == FirstOk(outcomes, 1) IN
       IF k > 0
       THEN /\ initialized' = TRUE
            /\ reqs' = k
            /\ result' = Res("ok", 0, <<>>, "")
       ELSE /\ initialized' = FALSE
            /\ reqs' = Len(outcomes)
            /\ result' = Res("InitFailed", 0, <<>>, "")
  /\ UNCHANGED <<network, utxos, pc, epIdx, pending>>

\* disconnect() clearing the flag only.
Disconnect_KeepsCache ==
  /\ CanCall
  /\ call' = Call("disconnect", "", <<>>)
  /\ initialized' = FALSE
  /\ reqs' = 0
  /\ result' = Res("ok", 0, <<>>, "")
  /\ UNCHANGED <<network, utxos, pc, epIdx, pending>>

\* disconnect(): clear the cache and the flag.
Disconnect ==
  /\ CanCall
  /\ call' = Call("disconnect", "", <<>>)
  /\ utxos' = <<>>
  /\ initialized' = FALSE
  /\ reqs' = 0
  /\ result' = Res("ok", 0, <<>>, "")
  /\ UNCHANGED <<network, pc, epIdx, pending>>

\* setUtxos adding to the cache instead of replacing it.
setUtxos_Append(data) == utxos' = utxos \o data

\* setUtxos(data): data is always an array here.
setUtxos(data) == utxos' = data

\* getUtxos(): the cache.
GetUtxos ==
  /\ CanCall
  /\ call' = Call("getUtxos", "", <<>>)
  /\ reqs' = 0
  /\ result' = Res("ok", 0, utxos, "")
  /\ UNCHANGED <<network, initialized, utxos, pc, epIdx, pending>>

\* calculateBalance(data) called from outside.
CalculateBalance(data) ==
  /\ CanCall
  /\ call' = Call("calculateBalance", "", data)
  /\ reqs' = 0
  /\ result' = Res("ok", calculateBalance(data), <<>>, "")
  /\ UNCHANGED <<network, initialized, utxos, pc, epIdx, pending>>

\* fetchBalance without its guard.
FetchGuard_Always(init) == TRUE

\* The guard of fetchBalance.
FetchGuard(init) == init

\* fetchBalance(address), entry: throw when not initialized, else start the loop.
FetchBalance(addr) ==
  /\ CanCall
  /\ call' = Call("fetchBalance", addr, <<>>)
  /\ reqs' = 0
  /\ IF FetchGuard(initialized)
     THEN /\ pc' = "request"
          /\ epIdx' = 1
          /\ result' = NoResult
     ELSE /\ pc' = "idle"
          /\ epIdx' = 0
          /\ result' = Res("NotInitialized", 0, <<>>, "")
  /\ UNCHANGED <<network, initialized, utxos, pending>>

\* `continue` of the endpoint loop; after the last endpoint the loop ends and
\* fetchBalance throws, naming the address.
NextEndpoint ==
  IF epIdx < NumEndpoints(network)
  THEN /\ pc' = "request"
       /\ epIdx' = epIdx + 1
       /\ result' = result
  ELSE /\ pc' = "idle"
       /\ epIdx' = 0
       /\ result' = Res("NoSpendableUtxos", 0, <<>>, call.addr)

\* fetchBalance: the request to endpoint epIdx and the filter of its answer.
FetchRequest(resp) ==
  /\ pc = "request"
  /\ reqs' = reqs + 1
  /\ LET confirmedUtxos == ConfirmedFilter(resp.data) IN
       IF resp.kind = "array" /\ Len(confirmedUtxos) > 0
       THEN /\ pc' = "verify"
            /\ pending' = confirmedUtxos
            /\ UNCHANGED <<epIdx, result>>
       ELSE /\ pending' = <<>>
            /\ NextEndpoint
  /\ UNCHANGED <<network, initialized, utxos, call>>

\* fetchBalance: verifySpendableUtxos on the confirmed entries (one outspends lookup
\* each), then cache and return, or go on to the next endpoint.
FetchVerify(answers) ==
  /\ pc = "verify"
  /\ reqs' = reqs + Len(pending)
  /\ pending' = <<>>
  /\ LET spendableUtxos == verifySpendableUtxos(pending, answers) IN
       IF Len(spendableUtxos) > 0
       THEN /\ setUtxos(spendableUtxos)
            /\ result' = Res("ok", calculateBalance(spendableUtxos), <<>>, call.addr)
            /\ pc' = "idle"
            /\ epIdx' = 0
       ELSE /\ NextEndpoint
            /\ UNCHANGED utxos
  /\ UNCHANGED <<network, initialized, call>>

(***************************************************************************)
(* CreatePsbt.  Amounts in BTC are kept in tenths of a satoshi, so that    *)
(* Math.round(amount * BTC_TO_SATOSHI) is a conversion that rounds.  The   *)
(* signing library is taken at its boundary: the public key and the two    *)
(* addresses are well formed, and fee rates are integers.                  *)
(***************************************************************************)
minimumFee == 1000
dustThreshold == 546
estimatedTransactionSize == 227

\* bitcoinMainnet / bitcoinTestnet: the fields the builder reads.
NetworkConfigOf(n) ==
  [wif |-> IF n = "btc" THEN "mainnet" ELSE "testnet",
   minimumFee |-> minimumFee,
   dustThreshold |-> dustThreshold]

\* const defaultGasFees = { low: 1, medium: 2, high: 5 }
defaultGasFees == [isNull |-> FALSE, low |-> 1, medium |-> 2, high |-> 5]

NullFees == [isNull |-> TRUE, low |-> 0, medium |-> 0, high |-> 0]

FeeTiers == {"low", "medium", "high"}

\* fees[selectedGasFee]
RateOf(fees, tier) ==
  IF tier = "low" THEN fees.low ELSE IF tier = "medium" THEN fees.medium ELSE fees.high

\* gasFees || defaultGasFees, then fees[selectedGasFee]
SelectedFeeRate(gasFees, tier) ==
  RateOf(IF gasFees.isNull THEN defaultGasFees ELSE gasFees, tier)

\* The fee without the raise to the network's minimum fee.
EstimatedFee_NoFloor(feeRate, cfg) == Max(feeRate, 1) * estimatedTransactionSize

\* BigInt(Math.max(feeRate, 1)) * BigInt(227), raised to networkConfig.minimumFee.
EstimatedFee(feeRate, cfg) ==
  LET fee == Max(feeRate, 1) * estimatedTransactionSize IN
    IF fee < cfg.minimumFee THEN cfg.minimumFee ELSE fee

\* Math.round(amount * BTC_TO_SATOSHI), amount given in tenths of a satoshi:
\* round half up.
AmountInSatoshis(amountTenths) == (amountTenths + 5) \div 10

\* The early validation without its test of the values.
UtxosInvalid_EmptyOnly(d) == ~d.hasUtxos \/ Len(d.utxos) = 0

\* The early validation: !utxos || utxos.length === 0 || some value falsy or <= 0.
UtxosInvalid(d) ==
  \/ ~d.hasUtxos
  \/ Len(d.utxos) = 0
  \/ \E i \in 1..Len(d.utxos) : d.utxos[i].value = 0 \/ d.utxos[i].value <= 0

\* The funds check with the fee left out of the amount required.
InsufficientFunds_IgnoringFee(totalInputAmount, amountInSatoshis, estimatedFee) ==
  totalInputAmount < amountInSatoshis

\* The funds check: totalInputAmount < totalAmountToSend.
InsufficientFunds(totalInputAmount, amountInSatoshis, estimatedFee) ==
  totalInputAmount < amountInSatoshis + estimatedFee

\* The change test with >= in place of >.
AddsChange_AtThreshold(changeAmount, cfg) == changeAmount >= cfg.dustThreshold

\* The change test: changeAmount > BigInt(networkConfig.dustThreshold).
AddsChange(changeAmount, cfg) == changeAmount > cfg.dustThreshold

\* btc.WIF(config).decode(wif) at the library's boundary: a malformed string fails
\* with an error of its own, a well-formed one with another version byte fails with
\* 'Wrong WIF prefix'.
WifDecode(cfgWif, wif) ==
  IF wif = "malformed" THEN "error"
  ELSE IF wif = cfgWif THEN "decoded"
  ELSE "wrongPrefix"

\* wifToPrivateKey decoding for the requested network only.
wifToPrivateKey_NoAlternate(wif, n) ==
  LET first == WifDecode(NetworkConfigOf(n).wif, wif)
  IN IF first = "decoded" THEN "decoded"
     ELSE IF first = "wrongPrefix" THEN "KeyDecodeBothFailed"
     ELSE "KeyDecodeFailed"

\* wifToPrivateKey: decode for the network; on 'Wrong WIF prefix' decode for the
\* alternate network; any other error fails at once.
wifToPrivateKey(wif, n) ==
  LET first == WifDecode(NetworkConfigOf(n).wif, wif)
      alternate == IF n = "btc" THEN "btctestnet" ELSE "btc"
  IN IF first = "decoded" THEN "decoded"
     ELSE IF first = "wrongPrefix"
          THEN (IF WifDecode(NetworkConfigOf(alternate).wif, wif) = "decoded"
                THEN "decoded" ELSE "KeyDecodeBothFailed")
          ELSE "KeyDecodeFailed"

TxInput(u) == [txid |-> u.txid, index |-> u.vout, amount |-> u.value]

TxInputs(list) == [i \in 1..Len(list) |-> TxInput(list[i])]

TxOutput(to, amount) == [to |-> to, amount |-> amount]

\* The result of a CreatePsbt call: its status ("ok" or the error), the numbers an
\* error message or the return value carries, the state of the builder's tx when the
\* call ended (inputs and outputs added, inputs signed) and whether a raw transaction
\* was returned.
PsbtResult(status, ins, outs, signed, returned, feeRate, totalFee, required, available) ==
  [status |-> status, txInputs |-> ins, txOutputs |-> outs, signed |-> signed,
   returned |-> returned, feeRate |-> feeRate, totalFee |-> totalFee,
   required |-> required, available |-> available]

NoPsbtResult == PsbtResult("none", <<>>, <<>>, 0, FALSE, 0, 0, 0, 0)

CreatePsbt(d, wif, selectedGasFee, gasFees) ==
  IF UtxosInvalid(d)
  THEN PsbtResult("InvalidUtxoSet", <<>>, <<>>, 0, FALSE, 0, 0, 0, 0)
  ELSE
    LET networkConfig == NetworkConfigOf(d.network)
        totalInputAmount == SumValues(d.utxos)
        ins == TxInputs(d.utxos)
        feeRate == SelectedFeeRate(gasFees, selectedGasFee)
        estimatedFee == EstimatedFee(feeRate, networkConfig)
        amountInSatoshis == AmountInSatoshis(d.amount)
        totalAmountToSend == amountInSatoshis + estimatedFee
        changeAmount == totalInputAmount - totalAmountToSend
        outs == <<TxOutput(d.recipient, amountInSatoshis)>>
                \o (IF AddsChange(changeAmount, networkConfig)
                    THEN <<TxOutput(d.address, changeAmount)>> ELSE <<>>)
        key == wifToPrivateKey(wif, d.network)
    IN
      IF InsufficientFunds(totalInputAmount, amountInSatoshis, estimatedFee)
      THEN PsbtResult("InsufficientFunds", ins, <<>>, 0, FALSE, 0, 0,
                      totalAmountToSend, totalInputAmount)
      ELSE IF key # "decoded"
      THEN PsbtResult(key, ins, outs, 0, FALSE, 0, 0, 0, 0)
      ELSE PsbtResult("ok", ins, outs, Len(d.utxos), TRUE, feeRate, estimatedFee, 0, 0)

\* ---- the inputs a CreatePsbt call is checked on ----
PsbtEntries ==
  { Utxo("a", 0, "number", 50000, TRUE),
    Utxo("b", 1, "number", 30000, TRUE),
    Utxo("d", 0, "number", 0, TRUE),
    Utxo("e", 0, "number", -5, TRUE) }

\* amounts in tenths of a satoshi
PsbtAmounts == {700000, 795000, 784540, 784530, 489996, 290004}

PsbtFeeTables ==
  { NullFees,
    [isNull |-> FALSE, low |-> 0, medium |-> 2, high |-> 5],
    [isNull |-> FALSE, low |-> 8, medium |-> 12, high |-> 20] }

WifKinds == {"mainnet", "testnet", "otherPrefix", "malformed"}

PsbtDetails ==
  { [network |-> n, hasUtxos |-> TRUE, utxos |-> u, recipient |-> "rcpt",
     amount |-> a, address |-> "addrA"] :
      n \in Networks, u \in SeqsUpTo(PsbtEntries, MaxUtxos), a \in PsbtAmounts }
  \cup
  { [network |-> n, hasUtxos |-> FALSE, utxos |-> <<>>, recipient |-> "rcpt",
     amount |-> a, address |-> "addrA"] : n \in Networks, a \in PsbtAmounts }

PsbtArgs ==
  [details : PsbtDetails, wif : WifKinds, tier : FeeTiers, gasFees : PsbtFeeTables]

NoPsbtArgs ==
  [details |-> [network |-> "btc", hasUtxos |-> FALSE, utxos |-> <<>>,
                recipient |-> "", amount |-> 0, address |-> ""],
   wif |-> "malformed", tier |-> "low", gasFees |-> NullFees]

PsbtIdle == psbtArgs = NoPsbtArgs /\ psbtRes = NoPsbtResult

PsbtInit == psbtArgs \in PsbtArgs /\ psbtRes = NoPsbtResult

\* The call of CreatePsbt on the chosen arguments.
PsbtCall ==
  /\ psbtRes = NoPsbtResult
  /\ psbtRes' = CreatePsbt(psbtArgs.details, psbtArgs.wif, psbtArgs.tier, psbtArgs.gasFees)
  /\ UNCHANGED psbtArgs

(***************************************************************************)
(* broadcastTransaction.                                                   *)
(***************************************************************************)
\* The endpoints of a network, in list order.
BroadcastEndpoints(n) ==
  IF n = "btc" THEN <<"mempool.space/api/tx", "blockstream.info/api/tx">>
  ELSE <<"mempool.space/testnet4/api/tx">>

contentTypes == <<"text/plain", "application/json">>

\* A response body: absent (undefined / null), a string, or a JSON object whose txid
\* field is `text` ("" when it has none).
Body(kind, text) == [kind |-> kind, text |-> text]

NoBody == Body("none", "")

Bodies ==
  { NoBody, Body("string", "S1"), Body("string", ""), Body("json", "J1"), Body("json", "") }

\* What axios.post can produce: a response with a status and a body (axios resolves a
\* 2xx status and rejects any other), or no response at all (timeout, network error).
PostResponses ==
  { [status |-> st, body |-> b, fault |-> "none"] : st \in {200, 201, 400, 404, 503}, b \in Bodies }
  \cup { [status |-> 0, body |-> NoBody, fault |-> f] : f \in {"timeout", "network"} }

\* Truthiness of a body value.
Truthy(b) == b.kind = "json" \/ (b.kind = "string" /\ b.text # "")

\* An error caught by the catch block: its kind and, for a rejected response, the status.
Err(kind, status) == [kind |-> kind, status |-> status]

NoErr == Err("null", 0)

\* The message of the error thrown at the end of a call, or the id returned: where the
\* text comes from (a response body, an error's message, the literal 'Unknown error'),
\* the body, whether it went through JSON.stringify, and the error.
Detail(src, body, stringified, err) ==
  [src |-> src, body |-> body, stringified |-> stringified, err |-> err]

BcastResult(status, detail) == [status |-> status, detail |-> detail]

NoBcastResult == BcastResult("running", Detail("none", NoBody, FALSE, NoErr))

\* The locals of the call at its start.
BcastStart(n) ==
  [net |-> n, pc |-> "post", ep |-> 1, ct |-> 1, log |-> <<>>,
   lastError |-> NoErr, lastResponseData |-> NoBody, result |-> NoBcastResult]

BcastIdle == [BcastStart("btc") EXCEPT !.pc = "idle"]

\* The catch block without the test for a 400.
IsRejection_Never(resp) == FALSE

\* axiosError.response?.status === 400
IsRejection(resp) == resp.fault = "none" /\ resp.status = 400

\* The loops with the inner one left after its first content type.
Advance_SkipEncoding(b) ==
  IF b.ep < Len(BroadcastEndpoints(b.net))
  THEN [b EXCEPT !.ep = b.ep + 1, !.ct = 1]
  ELSE [b EXCEPT !.pc = "done",
          !.result = [status |-> "BroadcastFailed",
                      detail |-> [src |-> "unknown", body |-> [kind |-> "none", text |-> ""],
                                  stringified |-> FALSE,
                                  err |-> [kind |-> "null", status |-> 0]]]]

\* The next (endpoint, content type) of the nested loops; past the last one the loops
\* end and the call throws with the last response data, else the last error's message.
Advance(b) ==
  IF b.ct < Len(contentTypes)
  THEN [b EXCEPT !.ct = b.ct + 1]
  ELSE IF b.ep < Len(BroadcastEndpoints(b.net))
  THEN [b EXCEPT !.ep = b.ep + 1, !.ct = 1]
  ELSE [b EXCEPT !.pc = "done",
          !.result = BcastResult("BroadcastFailed",
             IF Truthy(b.lastResponseData)
             THEN Detail("body", b.lastResponseData, TRUE, b.lastError)
             ELSE IF b.lastError # NoErr
             THEN Detail("message", NoBody, FALSE, b.lastError)
             ELSE Detail("unknown", NoBody, FALSE, NoErr))]

\* The catch block: record the error and the response data, throw at once on a 400,
\* otherwise continue.
Caught(b, resp, err) ==
  LET b2 == [b EXCEPT !.lastError = err,
                      !.lastResponseData = IF resp.fault = "none" /\ err.kind = "status"
                                           THEN resp.body ELSE NoBody]
  IN IF err.kind = "status" /\ IsRejection(resp)
     THEN [b2 EXCEPT !.pc = "done",
             !.result = BcastResult("InvalidTransaction",
                Detail("body", b2.lastResponseData,
                       b2.lastResponseData.kind # "string", err))]
     ELSE Advance(b2)

\* One pass of the loop body: the POST to endpoint ep with content type ct and what
\* follows from its answer.
PostStep(b, resp) ==
  LET b1 == [b EXCEPT !.log = Append(b.log,
                [ep |-> b.ep, ct |-> b.ct, status |-> resp.status,
                 body |-> resp.body, fault |-> resp.fault])]
  IN
    IF resp.fault # "none"
    THEN Caught(b1, resp, Err(resp.fault, 0))
    ELSE IF resp.status = 200
    THEN IF resp.body.kind = "none"
         \* response.data.txid on an absent body throws a TypeError inside the try
         THEN Caught(b1, resp, Err("typeError", 0))
         ELSE [b1 EXCEPT !.pc = "done",
                 !.result = BcastResult("ok",
                    IF resp.body.kind = "string" \/ resp.body.text # ""
                    THEN Detail("body", resp.body, FALSE, NoErr)
                    ELSE Detail("body", resp.body, TRUE, NoErr))]
    ELSE IF resp.status \in 200..299
    \* resolved, but not 200: neither returned nor caught
    THEN Advance(b1)
    ELSE Caught(b1, resp, Err("status", resp.status))

\* The whole call on a given sequence of answers, one per attempt.
RECURSIVE BroadcastRun(_, _)
BroadcastRun(b, posts) ==
  IF b.pc # "post" \/ posts = <<>> THEN b
  ELSE BroadcastRun(PostStep(b, Head(posts)), Tail(posts))

BcastInit == bcast \in {BcastStart(n) : n \in Networks}

\* One attempt of the call in progress.
BroadcastAttempt(resp) ==
  /\ bcast.pc = "post"
  /\ bcast' = PostStep(bcast, resp)

BcastNext == \E resp \in PostResponses : BroadcastAttempt(resp)

(***************************************************************************)
(* GasFees.fetchGasFees for btc and btctestnet.                            *)
(***************************************************************************)
\* this.defaultFees[network]
GasDefaults(n) ==
  IF n = "btc" THEN [isNull |-> FALSE, low |-> 8, medium |-> 12, high |-> 20]
  ELSE [isNull |-> FALSE, low |-> 1, medium |-> 2, high |-> 5]

\* What axios.get on the fee endpoint can produce: a rejected promise (timeout, error,
\* non-2xx), a falsy body, or a body whose three fields are read (0 for a field that
\* is absent or zero).
FeeResponse(kind, lo, mid, hi) ==
  [kind |-> kind, minimumFee |-> lo, halfHourFee |-> mid, fastestFee |-> hi]

\* x || y on numbers
OrElse(x, y) == IF x # 0 THEN x ELSE y

\* fetchBTCFees: the one endpoint of the network; defaults per field, and the default
\* table when the request fails or the body is falsy.
fetchBTCFees(n, resp) ==
  IF resp.kind = "data"
  THEN [isNull |-> FALSE,
        low |-> OrElse(resp.minimumFee, GasDefaults(n).low),
        medium |-> OrElse(resp.halfHourFee, GasDefaults(n).medium),
        high |-> OrElse(resp.fastestFee, GasDefaults(n).high)]
  ELSE GasDefaults(n)

\* fetchGasFees, case 'btc' / 'btctestnet': fees || this.defaultFees[this.network]
fetchGasFees(n, resp) ==
  LET fees == fetchBTCFees(n, resp) IN IF fees.isNull THEN GasDefaults(n) ELSE fees

\* ---- the inputs a fetchGasFees call is checked on ----
\* A field of the body as the code reads it: 0 when absent, null or zero, a positive
\* rate, or a negative number (a value no fee rate can have, truthy like any other
\* non-zero number, string or object).
FeeFieldValues == {0, -1, 3, 9}

\* The request is rejected (timeout, network error, a status outside 2xx), the body is
\* falsy (empty), or the body is read field by field; a body that is no object of
\* rates has all three fields absent.
FeeResponses ==
  { FeeResponse(k, 0, 0, 0) : k \in {"timeout", "error", "non2xx", "empty"} }
  \cup { FeeResponse("data", lo, mid, hi) :
            lo \in FeeFieldValues, mid \in FeeFieldValues, hi \in FeeFieldValues }

FeeArgs == [network : Networks, resp : FeeResponses]

NoFeeArgs == [network |-> "btc", resp |-> FeeResponse("none", 0, 0, 0)]

\* No call made yet.
NoFeeResult == [status |-> "none", fees |-> NullFees]

FeeIdle == feeArgs = NoFeeArgs /\ feeRes = NoFeeResult

FeeInit == feeArgs \in FeeArgs /\ feeRes = NoFeeResult

\* The call of new GasFees(network).fetchGasFees(): it returns, whatever the answer.
FeeCall ==
  /\ feeRes = NoFeeResult
  /\ feeRes' = [status |-> "returned", fees |-> fetchGasFees(feeArgs.network, feeArgs.resp)]
  /\ UNCHANGED feeArgs

(***************************************************************************)
(* sendBTCTransaction, as a function of its arguments and of what the      *)
(* remote ends answer during the call.                                     *)
(***************************************************************************)
\* getNetworkInstance('btc' | 'btctestnet'): a new instance, as constructed.
getNetworkInstance(n) == [network |-> n, initialized |-> FALSE, utxos |-> <<>>]

\* One call of fetchBalance as a function: explorer[i] is what endpoint i of
\* getEndpoints() answers and what the outspends lookups made for its entries answer.
\* Beside the accessor and the result, the call's doings are kept: the endpoints
\* queried, the outspends lookups made, and the sets handed to setUtxos.
Fetched(acc, res, queried, lookups, writes) ==
  [acc |-> acc, result |-> res, queried |-> queried, lookups |-> lookups,
   writes |-> writes]

\* The loop over the endpoints has ended after the first endpoint.
LoopDone_AfterFirst(i, explorer) == i > 1

\* for (const url of endpoints): the loop has ended.
LoopDone(i, explorer) == i > Len(explorer)

\* The final throw, clearing the cache first.
Exhausted_ClearsCache(acc, addr) ==
  Fetched([acc EXCEPT !.utxos = <<>>], Res("NoSpendableUtxos", 0, <<>>, addr),
          <<>>, <<>>, <<>>)

\* The throw after the loop: the error names the address; nothing is written.
Exhausted(acc, addr) ==
  Fetched(acc, Res("NoSpendableUtxos", 0, <<>>, addr), <<>>, <<>>, <<>>)

\* The outspends lookups verifySpendableUtxos makes for a list, with what each found.
Lookups(list, answers, i) ==
  [k \in 1..Len(list) |->
     [ep |-> i, txid |-> list[k].txid, vout |-> list[k].vout,
      status |-> OutputStatus(list[k], answers[k])]]

RECURSIVE FetchLoop(_, _, _, _)
FetchLoop(acc, addr, explorer, i) ==
  IF LoopDone(i, explorer)
  THEN Exhausted(acc, addr)
  ELSE
    LET resp == explorer[i].resp
        confirmedUtxos == ConfirmedFilter(resp.data)
        verifies == resp.kind = "array" /\ Len(confirmedUtxos) > 0
        spendableUtxos == verifySpendableUtxos(confirmedUtxos, explorer[i].answers)
        lookups == IF verifies THEN Lookups(confirmedUtxos, explorer[i].answers, i) ELSE <<>>
        rest == FetchLoop(acc, addr, explorer, i + 1)
    IN IF verifies /\ Len(spendableUtxos) > 0
       THEN Fetched([acc EXCEPT !.utxos = spendableUtxos],
                    Res("ok", calculateBalance(spendableUtxos), <<>>, addr),
                    <<i>>, lookups, <<spendableUtxos>>)
       ELSE [rest EXCEPT !.queried = <<i>> \o @, !.lookups = lookups \o @]

\* fetchBalance started at the second endpoint.
fetchBalance_SkipFirst(acc, addr, explorer) ==
  IF FetchGuard(acc.initialized)
  THEN FetchLoop(acc, addr, explorer, 2)
  ELSE Fetched(acc, Res("NotInitialized", 0, <<>>, ""), <<>>, <<>>, <<>>)

\* fetchBalance on an accessor value.
fetchBalance(acc, addr, explorer) ==
  IF FetchGuard(acc.initialized)
  THEN FetchLoop(acc, addr, explorer, 1)
  ELSE Fetched(acc, Res("NotInitialized", 0, <<>>, ""), <<>>, <<>>, <<>>)

\* ---- the inputs a fetchBalance call is checked on ----
\* The lists an address endpoint answers with: confirmed entries, an unconfirmed one,
\* one whose vout names no output.
FetchLists ==
  { <<>>,
    <<Utxo("a", 0, "number", 50000, TRUE)>>,
    <<Utxo("a", 0, "number", 50000, TRUE), Utxo("b", 1, "number", 30000, TRUE)>>,
    <<Utxo("c", 0, "number", 20000, FALSE)>>,
    <<Utxo("c", 0, "number", 20000, FALSE), Utxo("a", 0, "number", 50000, TRUE)>>,
    <<Utxo("g", -1, "number", 1000, TRUE), Utxo("b", 1, "number", 30000, TRUE)>> }

\* An endpoint's answer together with the answers of the outspends lookups made for
\* its confirmed entries (none when it has none).
FetchExplorer ==
  { [resp |-> [kind |-> k, data |-> <<>>], answers |-> <<>>] :
      k \in {"throw", "non200", "notArray"} }
  \cup
  UNION { [resp : {[kind |-> "array", data |-> d]},
          answers : [1..Len(ConfirmedFilter(d)) -> OutspendAnswers]] : d \in FetchLists }

\* The accessor before the call: never fetched, or holding the set of an earlier
\* successful fetchBalance; initialized, or not (never, or disconnected, or a failed
\* re-initialize, which keeps the cache).
FetchAccessors ==
  { [network |-> n, initialized |-> TRUE, utxos |-> u] :
      n \in Networks, u \in {<<>>, <<Utxo("b", 1, "number", 30000, TRUE)>>} }
  \cup
  { [network |-> n, initialized |-> FALSE, utxos |-> u] :
      n \in Networks, u \in {<<>>, <<Utxo("b", 1, "number", 30000, TRUE)>>} }

FetchArgs ==
  UNION { [acc : {a}, addr : Addresses,
           explorer : [1..NumEndpoints(a.network) -> FetchExplorer]] : a \in FetchAccessors }

NoFetchArgs ==
  [acc |-> [network |-> "btc", initialized |-> FALSE, utxos |-> <<>>], addr |-> "",
   explorer |-> <<>>]

NoFetchResult ==
  Fetched(NoFetchArgs.acc, Res("none", 0, <<>>, ""), <<>>, <<>>, <<>>)

FetchIdle == fetchArgs = NoFetchArgs /\ fetchRes = NoFetchResult

FetchInit == fetchArgs \in FetchArgs /\ fetchRes = NoFetchResult

\* The call of fetchBalance on the chosen accessor, address and answers.
FetchCall ==
  /\ fetchRes = NoFetchResult
  /\ fetchRes' = fetchBalance(fetchArgs.acc, fetchArgs.addr, fetchArgs.explorer)
  /\ UNCHANGED fetchArgs

\* The validation of the cached UTXOs in the send flow: txid truthy, vout and value
\* of type number (a cached value is never absent).
IsValidUtxo(u) == u.txid # "" /\ u.voutType = "number"

SendResult(status, txHash, feeRate, totalFee, trace, rawTx, posted) ==
  [status |-> status, txHash |-> txHash, feeRate |-> feeRate, totalFee |-> totalFee,
   trace |-> trace, rawTx |-> rawTx, posted |-> posted]

NoTx == [ins |-> <<>>, outs |-> <<>>]

NoTxHash == Detail("none", NoBody, FALSE, NoErr)

\* A failing run that still issues a broadcast request on its way out.
SendFailed_StillPosts(status, trace) ==
  SendResult(status, NoTxHash, 0, 0, trace, NoTx,
             <<[status |-> 503, body |-> [kind |-> "none", text |-> ""], fault |-> "none"]>>)

SendFailed(status, trace) == SendResult(status, NoTxHash, 0, 0, trace, NoTx, <<>>)

NoSendResult == SendFailed("none", <<>>)

\* What follows `await network.fetchBalance(address)`, given the instance after that
\* call and what the call returned or threw.  trace: the component calls made, in
\* order; rawTx: what was handed to the broadcaster; posted: the POST attempts made.
SendAfterFetch(a, fetched) ==
  LET d == a.details
      cached == fetched.acc.utxos
      validUtxos == SelectSeq(cached, IsValidUtxo)
      totalAvailable == SumValues(validUtxos)
      amountInSatoshis == AmountInSatoshis(d.amount)
      fees == fetchGasFees(d.network, a.fee)
      transactionWithUtxos ==
        [network |-> d.network, hasUtxos |-> TRUE, utxos |-> validUtxos,
         recipient |-> d.recipient, amount |-> d.amount, address |-> d.address]
      built == CreatePsbt(transactionWithUtxos, a.wif, a.tier, fees)
      rawTx == [ins |-> built.txInputs, outs |-> built.txOutputs]
      sent == BroadcastRun(BcastStart(d.network), a.posts)
  IN
    IF fetched.result.status # "ok"
    THEN SendFailed(fetched.result.status, <<"fetchBalance">>)
    ELSE IF Len(cached) = 0
    THEN SendFailed("NoUtxosFound", <<"fetchBalance", "getUtxos">>)
    ELSE IF Len(validUtxos) = 0
    THEN SendFailed("NoValidUtxos", <<"fetchBalance", "getUtxos">>)
    ELSE IF totalAvailable < amountInSatoshis
    THEN SendFailed("InsufficientFunds", <<"fetchBalance", "getUtxos">>)
    ELSE IF fees.isNull
    THEN SendFailed("NoGasFees", <<"fetchBalance", "getUtxos", "fetchGasFees">>)
    ELSE IF built.status # "ok"
    THEN SendFailed(built.status, <<"fetchBalance", "getUtxos", "fetchGasFees", "CreatePsbt">>)
    ELSE IF sent.result.status # "ok"
    THEN SendResult(sent.result.status, NoTxHash, 0, 0,
           <<"fetchBalance", "getUtxos", "fetchGasFees", "CreatePsbt", "broadcastTransaction">>,
           rawTx, sent.log)
    ELSE SendResult("ok", sent.result.detail, built.feeRate, built.totalFee,
           <<"fetchBalance", "getUtxos", "fetchGasFees", "CreatePsbt", "broadcastTransaction">>,
           rawTx, sent.log)

\* The whole call: a new instance, fetchBalance on it, and the rest of the flow.
sendBTCTransaction(a) ==
  SendAfterFetch(a, fetchBalance(getNetworkInstance(a.details.network),
                                 a.details.address, a.explorer))

\* ---- the inputs a sendBTCTransaction call is checked on ----
AllAnswer(x) == [i \in 1..2 |-> x]

Exp(kind, data, answer) == [resp |-> [kind |-> kind, data |-> data], answers |-> AllAnswer(answer)]

SendExplorer ==
  { Exp("throw", <<>>, "fail"),
    Exp("array", <<Utxo("a", 0, "number", 50000, TRUE), Utxo("b", 1, "number", 30000, TRUE)>>, "unspent"),
    Exp("array", <<Utxo("a", 0, "number", 50000, TRUE), Utxo("b", 1, "number", 30000, TRUE)>>, "spent"),
    Exp("array", <<Utxo("c", 0, "number", 20000, FALSE)>>, "unspent") }

SendFeeResponses == { FeeResponse("throw", 0, 0, 0), FeeResponse("data", 1, 2, 5) }

SendPosts ==
  { [status |-> 200, body |-> Body("string", "S1"), fault |-> "none"],
    [status |-> 503, body |-> Body("string", "S1"), fault |-> "none"] }

SendArgs ==
  [details : [network : Networks, address : {"addrA"}, recipient : {"rcpt"},
              amount : {700000, 795000, 784540}],
   wif : {"mainnet", "testnet"},
   tier : FeeTiers,
   explorer : [1..2 -> SendExplorer],
   fee : SendFeeResponses,
   posts : [1..4 -> SendPosts]]

NoSendArgs ==
  [details |-> [network |-> "btc", address |-> "", recipient |-> "", amount |-> 0],
   wif |-> "malformed", tier |-> "low",
   explorer |-> [i \in 1..2 |-> Exp("throw", <<>>, "fail")],
   fee |-> FeeResponse("throw", 0, 0, 0),
   posts |-> <<>>]

SendIdle == sendArgs = NoSendArgs /\ sendRes = NoSendResult

SendInit == sendArgs \in SendArgs /\ sendRes = NoSendResult

\* The call of sendBTCTransaction on the chosen arguments and answers.
SendCall ==
  /\ sendRes = NoSendResult
  /\ sendRes' = sendBTCTransaction(sendArgs)
  /\ UNCHANGED sendArgs

AccIdle ==
  /\ network = "btc"
  /\ initialized = FALSE
  /\ utxos = <<>>
  /\ pc = "idle"
  /\ epIdx = 0
  /\ pending = <<>>
  /\ call = Call("new", "", <<>>)
  /\ result = NoResult
  /\ reqs = 0

(***************************************************************************)
(* Several callers holding the same accessor instance.  Each caller is an  *)
(* async flow of its own: it awaits its fetchBalance and then reads the    *)
(* cache with getUtxos; between its suspension points the other callers    *)
(* run.  network, initialized and utxos are the fields of the one          *)
(* instance; initialize() and disconnect() are called by its owner.        *)
(***************************************************************************)
Callers == {"c1", "c2"}

\* The outputs an explorer knows for each address: the endpoint is asked for
\* `${url}/address/${address}/utxo` and lists outputs of that address.
OutputsOf(addr) ==
  IF addr = "addrA"
  THEN { Utxo("a", 0, "number", 50000, TRUE), Utxo("b", 1, "number", 30000, TRUE) }
  ELSE { Utxo("p", 0, "number", 7000, TRUE), Utxo("q", 1, "number", 9000, TRUE) }

AddressLists(addr) ==
  IF addr = "addrA"
  THEN { <<Utxo("a", 0, "number", 50000, TRUE)>>,
         <<Utxo("a", 0, "number", 50000, TRUE), Utxo("b", 1, "number", 30000, TRUE)>> }
  ELSE { <<Utxo("p", 0, "number", 7000, TRUE)>>,
         <<Utxo("p", 0, "number", 7000, TRUE), Utxo("q", 1, "number", 9000, TRUE)>> }

AddressResponses(addr) ==
  { [kind |-> "throw", data |-> <<>>] }
  \cup { [kind |-> "array", data |-> d] : d \in AddressLists(addr) }

\* A caller between calls, before its first call.
CallerIdle ==
  [pc |-> "idle", epIdx |-> 0, pending |-> <<>>, op |-> "none", addr |-> "",
   fetched |-> NoResult, got |-> <<>>]

CallersIdle == callers = [c \in Callers |-> CallerIdle]

\* fetchBalance(address) by caller c, entry.
CallerFetchBalance(c, addr) ==
  /\ callers[c].pc = "idle"
  /\ callers' =
       [callers EXCEPT ![c] =
          IF FetchGuard(initialized)
          THEN [CallerIdle EXCEPT !.pc = "request", !.epIdx = 1,
                                  !.op = "fetchBalance", !.addr = addr]
          ELSE [CallerIdle EXCEPT !.op = "fetchBalance", !.addr = addr,
                                  !.fetched = Res("NotInitialized", 0, <<>>, "")]]
  /\ UNCHANGED accVars

\* `continue` of caller c's endpoint loop, or the throw after the last endpoint.
CallerNextEndpoint(r) ==
  IF r.epIdx < NumEndpoints(network)
  THEN [r EXCEPT !.pc = "request", !.epIdx = @ + 1, !.pending = <<>>]
  ELSE [r EXCEPT !.pc = "idle", !.epIdx = 0, !.pending = <<>>,
                 !.fetched = Res("NoSpendableUtxos", 0, <<>>, r.addr)]

\* Caller c's request to its current endpoint is answered.
CallerFetchRequest(c, resp) ==
  /\ callers[c].pc = "request"
  /\ LET confirmedUtxos == ConfirmedFilter(resp.data) IN
       callers' =
         [callers EXCEPT ![c] =
            IF resp.kind = "array" /\ Len(confirmedUtxos) > 0
            THEN [@ EXCEPT !.pc = "verify", !.pending = confirmedUtxos]
            ELSE CallerNextEndpoint(@)]
  /\ UNCHANGED accVars

\* Caller c's outspends lookups are answered: cache and return, or go on.
CallerFetchVerify(c, answers) ==
  /\ callers[c].pc = "verify"
  /\ LET spendableUtxos == verifySpendableUtxos(callers[c].pending, answers) IN
       IF Len(spendableUtxos) > 0
       THEN /\ setUtxos(spendableUtxos)
            /\ callers' =
                 [callers EXCEPT ![c] =
                    [@ EXCEPT !.pc = "idle", !.epIdx = 0, !.pending = <<>>,
                              !.fetched = Res("ok", calculateBalance(spendableUtxos),
                                              <<>>, @.addr)]]
       ELSE /\ UNCHANGED utxos
            /\ callers' = [callers EXCEPT ![c] = CallerNextEndpoint(@)]
  /\ UNCHANGED <<network, initialized, pc, epIdx, pending, call, result, reqs>>

\* getUtxos() by caller c.
CallerGetUtxos(c) ==
  /\ callers[c].pc = "idle"
  /\ callers' = [callers EXCEPT ![c] = [@ EXCEPT !.op = "getUtxos", !.got = utxos]]
  /\ UNCHANGED accVars

CallersOnly == UNCHANGED <<psbtVars, bcast, sendVars, fetchVars, feeVars, sends>>

(***************************************************************************)
(* Several sendBTCTransaction invocations in flight at once.  An           *)
(* invocation runs up to its `await network.fetchBalance(...)` in one      *)
(* step (the instance is constructed and fetchBalance is applied to it)    *)
(* and the rest of its flow when it is resumed; other invocations run in   *)
(* between.  sends.instances are the accessor objects constructed so far.  *)
(***************************************************************************)
Invocations == {"s1", "s2"}

\* What the explorer answers for an invocation's sender address.
ExplorerOf(addr) ==
  { Exp("throw", <<>>, "fail") }
  \cup { Exp("array", l, "unspent") : l \in AddressLists(addr) }

ConcurrentSendArgs ==
  { [details |-> d, wif |-> w, tier |-> "low", explorer |-> e,
     fee |-> FeeResponse("data", 1, 2, 5),
     posts |-> [k \in 1..4 |-> [status |-> 200, body |-> Body("string", "S1"),
                                fault |-> "none"]]] :
      d \in [network : Networks, address : Addresses, recipient : {"rcpt"},
             amount : {50000}],
      w \in {"mainnet", "testnet"},
      e \in UNION { [1..2 -> ExplorerOf(a)] : a \in Addresses } }

\* An invocation not yet made.
NoInvocation ==
  [pc |-> "new", args |-> NoSendArgs, inst |-> 0, fetched |-> NoResult,
   res |-> NoSendResult]

SendsIdle == sends = [instances |-> <<>>, inv |-> [i \in Invocations |-> NoInvocation]]

\* Every invocation is handed the one instance constructed first.
InstanceFor_Shared(instances, n) ==
  IF Len(instances) > 0
  THEN [instances |-> instances, id |-> 1]
  ELSE [instances |-> <<getNetworkInstance(n)>>, id |-> 1]

\* const network = getNetworkInstance(transactionDetails.network): `new BTCNetwork()`
\* or `new BTCTestnetNetwork()`, an object of its own.
InstanceFor(instances, n) ==
  [instances |-> Append(instances, getNetworkInstance(n)), id |-> Len(instances) + 1]

\* Invocation i is called and runs to its first await.
SendEnter(i, a) ==
  /\ sends.inv[i].pc = "new"
  /\ a.explorer \in [1..2 -> ExplorerOf(a.details.address)]
  /\ LET made == InstanceFor(sends.instances, a.details.network)
         fetched == fetchBalance(made.instances[made.id], a.details.address, a.explorer)
     IN sends' =
          [instances |-> [made.instances EXCEPT ![made.id] = fetched.acc],
           inv |-> [sends.inv EXCEPT ![i] =
                      [pc |-> "awaiting", args |-> a, inst |-> made.id,
                       fetched |-> fetched.result, res |-> NoSendResult]]]
  /\ UNCHANGED <<accVars, psbtVars, bcast, sendVars, fetchVars, feeVars, callers>>

\* Invocation i is resumed after fetchBalance and runs to its end.
SendResume(i) ==
  /\ sends.inv[i].pc = "awaiting"
  /\ LET r == sends.inv[i]
         fetched == Fetched(sends.instances[r.inst], r.fetched, <<>>, <<>>, <<>>)
     IN sends' = [sends EXCEPT !.inv[i] =
                    [r EXCEPT !.pc = "done", !.res = SendAfterFetch(r.args, fetched)]]
  /\ UNCHANGED <<accVars, psbtVars, bcast, sendVars, fetchVars, feeVars, callers>>

(***************************************************************************)
(* Specifications.                                                         *)
(***************************************************************************)
Init == AccInit /\ PsbtIdle /\ bcast = BcastIdle /\ SendIdle /\ FetchIdle /\ FeeIdle /\ CallersIdle /\ SendsIdle

AccOnly == UNCHANGED <<psbtVars, bcast, sendVars, fetchVars, feeVars, callers, sends>>

Next ==
  \/ \E o \in [1..2 -> InitOutcomes] : Initialize(o) /\ AccOnly
  \/ Disconnect /\ AccOnly
  \/ GetUtxos /\ AccOnly
  \/ \E d \in BalanceLists : CalculateBalance(d) /\ AccOnly
  \/ \E a \in Addresses : FetchBalance(a) /\ AccOnly
  \/ \E r \in ExplorerResponses : FetchRequest(r) /\ AccOnly
  \/ \E ans \in [1..Len(pending) -> OutspendAnswers] : FetchVerify(ans) /\ AccOnly

\* The accessor used sequentially by one caller.
Spec == Init /\ [][Next]_vars

InitPsbt == AccIdle /\ PsbtInit /\ bcast = BcastIdle /\ SendIdle /\ FetchIdle /\ FeeIdle /\ CallersIdle /\ SendsIdle

NextPsbt == PsbtCall /\ UNCHANGED <<accVars, bcast, sendVars, fetchVars, feeVars, callers, sends>>

\* CreatePsbt applied to each argument tuple.
SpecPsbt == InitPsbt /\ [][NextPsbt]_vars

InitBroadcast == AccIdle /\ PsbtIdle /\ BcastInit /\ SendIdle /\ FetchIdle /\ FeeIdle /\ CallersIdle /\ SendsIdle

NextBroadcast == BcastNext /\ UNCHANGED <<accVars, psbtVars, sendVars, fetchVars, feeVars, callers, sends>>

\* One call of broadcastTransaction, attempt by attempt.
SpecBroadcast == InitBroadcast /\ [][NextBroadcast]_vars

InitSend == AccIdle /\ PsbtIdle /\ bcast = BcastIdle /\ SendInit /\ FetchIdle /\ FeeIdle /\ CallersIdle /\ SendsIdle

NextSend == SendCall /\ UNCHANGED <<accVars, psbtVars, bcast, fetchVars, feeVars, callers, sends>>

\* sendBTCTransaction applied to each argument tuple and each set of answers.
SpecSend == InitSend /\ [][NextSend]_vars

InitFetch == AccIdle /\ PsbtIdle /\ bcast = BcastIdle /\ SendIdle /\ FetchInit /\ FeeIdle /\ CallersIdle /\ SendsIdle

NextFetch == FetchCall /\ UNCHANGED <<accVars, psbtVars, bcast, sendVars, feeVars, callers, sends>>

\* fetchBalance applied to each accessor, address and set of answers.
SpecFetch == InitFetch /\ [][NextFetch]_vars

InitFees == AccIdle /\ PsbtIdle /\ bcast = BcastIdle /\ SendIdle /\ FetchIdle /\ FeeInit /\ CallersIdle /\ SendsIdle

NextFees == FeeCall /\ UNCHANGED <<accVars, psbtVars, bcast, sendVars, fetchVars, callers, sends>>

\* fetchGasFees applied to each network and answer of the fee endpoint.
SpecFees == InitFees /\ [][NextFees]_vars

\* The instance is a BTCNetwork as constructed.
InitShared ==
  AccIdle /\ PsbtIdle /\ bcast = BcastIdle /\ SendIdle /\ FetchIdle /\ FeeIdle /\ CallersIdle /\ SendsIdle

NextShared ==
  \/ \E o \in [1..2 -> InitOutcomes] : Initialize(o) /\ AccOnly
  \/ Disconnect /\ AccOnly
  \/ \E c \in Callers, a \in Addresses : CallerFetchBalance(c, a) /\ CallersOnly
  \/ \E c \in Callers : \E r \in AddressResponses(callers[c].addr) :
       CallerFetchRequest(c, r) /\ CallersOnly
  \/ \E c \in Callers : \E ans \in [1..Len(callers[c].pending) -> {"spent", "unspent"}] :
       CallerFetchVerify(c, ans) /\ CallersOnly
  \/ \E c \in Callers : CallerGetUtxos(c) /\ CallersOnly

\* Two callers on one accessor instance, interleaved at every suspension point.
SpecShared == InitShared /\ [][NextShared]_vars

InitSends ==
  AccIdle /\ PsbtIdle /\ bcast = BcastIdle /\ SendIdle /\ FetchIdle /\ FeeIdle /\ CallersIdle /\ SendsIdle

NextSends ==
  \/ \E i \in Invocations, a \in ConcurrentSendArgs : SendEnter(i, a)
  \/ \E i \in Invocations : SendResume(i)

\* Two invocations of sendBTCTransaction, interleaved at the await of fetchBalance.
SpecSends == InitSends /\ [][NextSends]_vars

(***************************************************************************)
(* Properties.                                                             *)
(***************************************************************************)
\* The fee of the specification: max(max(r, 1) * 227, 1000).
SpecifiedFee(r) == Max(Max(r, 1) * 227, 1000)

ArgsRate == SelectedFeeRate(psbtArgs.gasFees, psbtArgs.tier)

ArgsAmount == AmountInSatoshis(psbtArgs.details.amount)

ArgsTotalInput == SumValues(psbtArgs.details.utxos)

PsbtDone == psbtRes.status # "none"

\* ---- C1 (SpecSend) ----
\* The explorer endpoints report confirmed, unspent UTXOs whose sum covers amount plus
\* fee, and one of the network's broadcast combinations is answered 200.
SendFavourable(a) ==
  /\ \E i \in 1..2 :
       LET e == a.explorer[i] IN
         /\ e.resp.kind = "array"
         /\ Len(e.resp.data) > 0
         /\ \A k \in 1..Len(e.resp.data) :
              /\ e.resp.data[k].confirmed
              /\ e.resp.data[k].value > 0
              /\ e.answers[k] = "unspent"
         /\ SumValues(e.resp.data) >=
              AmountInSatoshis(a.details.amount)
              + SpecifiedFee(SelectedFeeRate(fetchGasFees(a.details.network, a.fee), a.tier))
  /\ \E k \in 1..(Len(BroadcastEndpoints(a.details.network)) * Len(contentTypes)) :
       a.posts[k].status = 200

\* C1: sendBTCTransaction performs fetchBalance, the read of the cached UTXOs, the fee
\* lookup, the build and the broadcast in this order, and whenever the explorers
\* report confirmed unspent UTXOs covering amount plus fee and a broadcast endpoint
\* answers 200 it returns {txHash, feeRate, totalFee} instead of failing.
C1_SendReturnsWhenFunded ==
  (sendRes.status # "none" /\ SendFavourable(sendArgs)) =>
     /\ sendRes.status = "ok"
     /\ sendRes.trace =
          <<"fetchBalance", "getUtxos", "fetchGasFees", "CreatePsbt", "broadcastTransaction">>

\* ---- C2 (SpecPsbt) ----
\* C2, as claimed: for every UTXO set and request with sum of values < amount + fee,
\* CreatePsbt fails with the insufficient-funds error carrying required and available,
\* before any output is added or input signed and without a raw transaction.
C2_InsufficientForEveryUtxoSet ==
  (PsbtDone /\ ArgsTotalInput < ArgsAmount + SpecifiedFee(ArgsRate)) =>
     /\ psbtRes.status = "InsufficientFunds"
     /\ psbtRes.required = ArgsAmount + SpecifiedFee(ArgsRate)
     /\ psbtRes.available = ArgsTotalInput
     /\ psbtRes.txOutputs = <<>>
     /\ psbtRes.signed = 0
     /\ ~psbtRes.returned

\* The UTXO list is present, non-empty and all its values are positive.
ArgsUtxosValid ==
  /\ psbtArgs.details.hasUtxos
  /\ Len(psbtArgs.details.utxos) > 0
  /\ \A i \in 1..Len(psbtArgs.details.utxos) : psbtArgs.details.utxos[i].value > 0

\* C2, amended: for every non-empty UTXO set of positive values and request with sum
\* of values < amount + fee, CreatePsbt fails with the insufficient-funds error
\* carrying required and available, before any output is added or input signed and
\* without a raw transaction.
C2_InsufficientFundsBeforeOutputs ==
  (PsbtDone /\ ArgsUtxosValid /\ ArgsTotalInput < ArgsAmount + SpecifiedFee(ArgsRate)) =>
     /\ psbtRes.status = "InsufficientFunds"
     /\ psbtRes.required = ArgsAmount + SpecifiedFee(ArgsRate)
     /\ psbtRes.available = ArgsTotalInput
     /\ psbtRes.txOutputs = <<>>
     /\ psbtRes.signed = 0
     /\ ~psbtRes.returned

\* Inputs 50,000 + 30,000, amount 79,500, fee 1,000: required 80,500, available 80,000.
C2_ScenarioB ==
  /\ psbtArgs.details.amount = 795000
  /\ ArgsTotalInput = 80000
  /\ psbtRes.status = "InsufficientFunds"
  /\ psbtRes.required = 80500
  /\ psbtRes.available = 80000

\* ---- C3 (SpecPsbt) ----
\* C3: a successful CreatePsbt whose remainder totalInput - amount - fee exceeds the
\* dust threshold 546 has exactly two outputs, the recipient's of the amount and one
\* change output to the sender of the remainder; otherwise it has exactly the
\* recipient's output.
C3_DustPolicy ==
  psbtRes.status = "ok" =>
    LET remainder == ArgsTotalInput - ArgsAmount - SpecifiedFee(ArgsRate)
        toRecipient == [to |-> psbtArgs.details.recipient, amount |-> ArgsAmount]
        toSender == [to |-> psbtArgs.details.address, amount |-> remainder]
    IN IF remainder > 546
       THEN psbtRes.txOutputs = <<toRecipient, toSender>>
       ELSE psbtRes.txOutputs = <<toRecipient>>

\* Inputs 80,000, amount 70,000, fee 1,000: outputs 70,000 and 9,000.
C3_ScenarioA ==
  /\ psbtRes.status = "ok"
  /\ ArgsTotalInput = 80000
  /\ psbtRes.totalFee = 1000
  /\ psbtRes.txOutputs = <<[to |-> "rcpt", amount |-> 70000], [to |-> "addrA", amount |-> 9000]>>

\* ---- C4 (SpecPsbt) ----
\* C4: for the selected rate r >= 0 the fee used in the funds check and reported as
\* totalFee is max(max(r, 1) * 227, 1000).
C4_FeeFloor ==
  /\ psbtRes.status = "ok" =>
       /\ psbtRes.totalFee = SpecifiedFee(ArgsRate)
       /\ psbtRes.feeRate = ArgsRate
       /\ ArgsTotalInput >= ArgsAmount + SpecifiedFee(ArgsRate)
  /\ psbtRes.status = "InsufficientFunds" =>
       /\ psbtRes.required = ArgsAmount + SpecifiedFee(ArgsRate)
       /\ ArgsTotalInput < ArgsAmount + SpecifiedFee(ArgsRate)

\* A build at rate 0, whose fee is the minimum fee.
C4_RateZero ==
  /\ psbtRes.status = "ok"
  /\ ArgsRate = 0
  /\ psbtRes.totalFee = 1000

\* ---- C5 (SpecBroadcast) ----
\* The attempt is the last one made and the call ended with the rejection error.
EndsCallRejected(i) ==
  /\ i = Len(bcast.log)
  /\ bcast.pc = "done"
  /\ bcast.result.status = "InvalidTransaction"

NumCombos == Len(BroadcastEndpoints(bcast.net)) * 2

\* The place of (endpoint, content type) in the fixed order.
ComboIndex(ep, ct) == (ep - 1) * 2 + ct

TransientFailure(attempt) ==
  attempt.fault \in {"timeout", "network"} \/ attempt.status \in 500..599

\* C6: the attempts are made in the fixed order, endpoints in list order and
\* text/plain before application/json, each combination at most once; after an
\* attempt failing with a timeout, a 5xx or a network error the next combination in
\* that order is the one attempted.
C6_AttemptsInFixedOrder ==
  /\ Len(bcast.log) <= NumCombos
  /\ \A i \in 1..Len(bcast.log) :
       /\ bcast.log[i].ep \in 1..Len(BroadcastEndpoints(bcast.net))
       /\ bcast.log[i].ct \in 1..2
       /\ ComboIndex(bcast.log[i].ep, bcast.log[i].ct) = i
  /\ contentTypes = <<"text/plain", "application/json">>
  /\ (/\ Len(bcast.log) \in 1..(NumCombos - 1)
      /\ TransientFailure(bcast.log[Len(bcast.log)])) =>
        /\ bcast.pc = "post"
        /\ ComboIndex(bcast.ep, bcast.ct) = Len(bcast.log) + 1

\* All four combinations of btc tried, after a timeout, a 503 and a network error.
C6_FourAttempts ==
  /\ Len(bcast.log) = 4
  /\ bcast.log[1].fault = "timeout"
  /\ bcast.log[2].status = 503
  /\ bcast.log[3].fault = "network"

\* ---- C7 (SpecBroadcast) ----
\* The attempts that were answered with an error response carrying a body.
BodiedFailures ==
  { i \in 1..Len(bcast.log) :
      /\ bcast.log[i].fault = "none"
      /\ bcast.log[i].status \notin 200..299
      /\ Truthy(bcast.log[i].body) }

\* C7: when every combination fails without a 400, the call fails with the
\* broadcast-exhausted error whose message contains the last response body observed
\* during the call, also when later attempts got no response.
C7_ExhaustedCarriesLastBody ==
  (bcast.pc = "done" /\ bcast.result.status = "BroadcastFailed" /\ BodiedFailures # {}) =>
     LET last == CHOOSE i \in BodiedFailures : \A j \in BodiedFailures : j <= i IN
       /\ bcast.result.detail.src = "body"
       /\ bcast.result.detail.body = bcast.log[last].body

\* ---- C8 (Spec) ----
\* C8: fetchBalance on an accessor that is not initialized fails with the
\* not-initialized error before any HTTP request is issued and leaves the cache
\* unchanged.
C8_FetchBalanceNeedsInitialize ==
  [][ (pc = "idle" /\ ~initialized /\ call'.op = "fetchBalance") =>
        /\ pc' = "idle"
        /\ result'.status = "NotInitialized"
        /\ reqs' = 0
        /\ utxos' = utxos
        /\ initialized' = initialized ]_vars

\* fetchBalance refused on an accessor whose last initialize failed, its cache still
\* holding an earlier set.
C8_RefusedWithCacheKept ==
  /\ call.op = "fetchBalance"
  /\ result.status = "NotInitialized"
  /\ ~initialized
  /\ reqs = 0
  /\ utxos # <<>>

\* ---- C9 (Spec) ----
\* r = satoshis / 10^8 for the integer r a call returned: r * 10^8 = satoshis, written
\* without the product.
IsMajorUnitOf(r, satoshis) ==
  satoshis % 100000000 = 0 /\ r = satoshis \div 100000000

FetchSucceeded == pc = "idle" /\ call.op = "fetchBalance" /\ result.status = "ok"

\* C9, as claimed: a successful fetchBalance returns the sum of the verified UTXOs'
\* values divided by 10^8, and calculateBalance on a list does the same conversion.
C9_BalanceInMajorUnit ==
  /\ FetchSucceeded => IsMajorUnitOf(result.balance, SumValues(utxos))
  /\ call.op = "calculateBalance" => IsMajorUnitOf(result.balance, SumValues(call.data))

\* C9, amended: a successful fetchBalance returns the sum of the verified UTXOs'
\* values in satoshis, not divided by 10^8, and calculateBalance on a list returns
\* that same plain sum.
C9_BalanceInSatoshis ==
  /\ FetchSucceeded => result.balance = SumValues(utxos)
  /\ call.op = "calculateBalance" => result.balance = SumValues(call.data)

\* A fetch of 50,000 + 30,000 satoshis returning 80000.
C9_Returned80000 ==
  /\ FetchSucceeded
  /\ Len(utxos) = 2
  /\ result.balance = 80000

\* ---- C10 (Spec) ----
WellFormedEntry(u) ==
  /\ u.confirmed = TRUE
  /\ u.value > 0
  /\ u.voutType = "number"
  /\ u.vout >= 0
  /\ u.txid # ""

\* C10: every entry of the set cached by fetchBalance and returned by getUtxos has
\* status.confirmed = true, value > 0, a vout that is a non-negative integer and a
\* present txid.
C10_CachedEntriesWellFormed ==
  /\ \A i \in 1..Len(utxos) : WellFormedEntry(utxos[i])
  /\ call.op = "getUtxos" => \A i \in 1..Len(result.list) : WellFormedEntry(result.list[i])

\* ---- fetchBalance as one call (SpecFetch) ----
FetchDone == fetchRes.result.status # "none"

\* What endpoint e yields: the entries of its answer that pass the filter and are
\* verified unspent; nothing when the request fails or the body is no array.
EndpointYield(e) ==
  IF e.resp.kind = "array"
  THEN verifySpendableUtxos(ConfirmedFilter(e.resp.data), e.answers)
  ELSE <<>>

LastQueried == fetchRes.queried[Len(fetchRes.queried)]

\* ---- C11 (SpecFetch) ----
\* C11: every UTXO in the set a fetchBalance call cached was reported unspent by an
\* outspends lookup for its txid and vout made during that call; an entry reported
\* spent, one whose outspend entry is missing and one whose lookup failed are in
\* neither the cache nor the returned balance.
C11_CachedOnlyIfReportedUnspent ==
  (FetchDone /\ fetchRes.result.status = "ok") =>
     LET cached == fetchRes.acc.utxos
         looked == { k \in 1..Len(fetchRes.lookups) : fetchRes.lookups[k].ep = LastQueried }
         Names(k, u) == fetchRes.lookups[k].txid = u.txid /\ fetchRes.lookups[k].vout = u.vout
         kept == { k \in looked : fetchRes.lookups[k].status = "unspent" }
     IN /\ fetchRes.writes = <<cached>>
        /\ \A i \in 1..Len(cached) : \E k \in kept : Names(k, cached[i])
        /\ \A k \in looked \ kept : \A i \in 1..Len(cached) : ~Names(k, cached[i])
        /\ Len(cached) = Cardinality(kept)
        /\ fetchRes.result.balance = SumValues(cached)

\* Of two confirmed entries, the one whose lookup failed is dropped and the other,
\* reported unspent, is cached and makes the balance.
C11_OneOfTwoVerified ==
  /\ fetchRes.result.status = "ok"
  /\ Len(fetchRes.lookups) = 2
  /\ fetchRes.lookups[1].status = "fail"
  /\ fetchRes.lookups[2].status = "unspent"
  /\ Len(fetchRes.acc.utxos) = 1
  /\ fetchRes.result.balance = 30000

\* ---- C12 (SpecFetch) ----
\* C12: when the first M endpoints fail and endpoint M+1 yields a non-empty verified
\* set, fetchBalance returns the same value and leaves the same cache as on the
\* endpoint list holding endpoint M+1 alone; the cache is written exactly once, with
\* the set of endpoint M+1, and no endpoint after M+1 is queried.
C12_FallbackEqualsDirectCall ==
  \A M \in 0..(Len(fetchArgs.explorer) - 1) :
    (/\ FetchDone
     /\ fetchArgs.acc.initialized
     /\ \A i \in 1..M : EndpointYield(fetchArgs.explorer[i]) = <<>>
     /\ EndpointYield(fetchArgs.explorer[M + 1]) # <<>>) =>
       LET alone == fetchBalance(fetchArgs.acc, fetchArgs.addr, <<fetchArgs.explorer[M + 1]>>)
       IN /\ fetchRes.result = alone.result
          /\ fetchRes.acc = alone.acc
          /\ fetchRes.writes = <<EndpointYield(fetchArgs.explorer[M + 1])>>
          /\ fetchRes.queried = [k \in 1..(M + 1) |-> k]

\* The first endpoint lists entries that all turn out spent, the second yields a
\* verified set, on an accessor that held another set before.
C12_SecondEndpointAfterSpentFirst ==
  /\ FetchDone
  /\ fetchRes.queried = <<1, 2>>
  /\ fetchArgs.explorer[1].resp.kind = "array"
  /\ Len(fetchArgs.explorer[1].answers) = 2
  /\ fetchRes.result.status = "ok"
  /\ fetchArgs.acc.utxos # <<>>
  /\ fetchRes.acc.utxos # fetchArgs.acc.utxos

\* ---- C13 (SpecFetch) ----
\* C13: on an initialized accessor fetchBalance fails with the no-spendable-UTXOs
\* error naming the address exactly when every endpoint was tried and none yielded a
\* non-empty verified set; an endpoint whose confirmed set is empty does not end the
\* call while an untried endpoint remains.
C13_NoSpendableIffAllTried ==
  (FetchDone /\ fetchArgs.acc.initialized) =>
     LET N == Len(fetchArgs.explorer) IN
       /\ (fetchRes.result.status = "NoSpendableUtxos" /\ fetchRes.result.addr = fetchArgs.addr)
             <=> (/\ fetchRes.queried = [k \in 1..N |-> k]
                  /\ \A i \in 1..N : EndpointYield(fetchArgs.explorer[i]) = <<>>)
       /\ fetchRes.result.status \in {"ok", "NoSpendableUtxos"}
       /\ \A k \in 1..Len(fetchRes.queried) :
            (/\ fetchRes.queried[k] < N
             /\ ConfirmedFilter(fetchArgs.explorer[fetchRes.queried[k]].resp.data) = <<>>)
               => k < Len(fetchRes.queried) /\ fetchRes.queried[k + 1] = fetchRes.queried[k] + 1

\* The first endpoint lists only an unconfirmed entry, the second fails: the error
\* comes after both were tried.
C13_EmptyConfirmedThenFailure ==
  /\ fetchRes.result.status = "NoSpendableUtxos"
  /\ fetchRes.result.addr = "addrB"
  /\ fetchRes.queried = <<1, 2>>
  /\ fetchArgs.explorer[1].resp.kind = "array"
  /\ Len(fetchArgs.explorer[1].resp.data) = 1
  /\ ConfirmedFilter(fetchArgs.explorer[1].resp.data) = <<>>

\* ---- C14 (SpecFetch) ----
\* Every configured endpoint was asked and answered 5xx (the request is rejected).
AllEndpoints5xx ==
  /\ FetchDone
  /\ fetchRes.queried = [k \in 1..Len(fetchArgs.explorer) |-> k]
  /\ \A i \in 1..Len(fetchArgs.explorer) : fetchArgs.explorer[i].resp.kind = "throw"

\* C14, as claimed: after a fetchBalance call in which all endpoints return 5xx the
\* call has failed with the no-spendable-UTXOs error and the cache is empty, whatever
\* was done on the accessor before.
C14_All5xxLeavesCacheEmpty ==
  AllEndpoints5xx =>
    /\ fetchRes.result.status = "NoSpendableUtxos"
    /\ fetchRes.acc.utxos = <<>>

\* C14, amended: after a fetchBalance call in which all endpoints return 5xx the call
\* has failed with the no-spendable-UTXOs error and the cache is what it was before
\* the call, nothing having been written to it: empty if it was empty, and still the
\* set of an earlier successful fetchBalance otherwise.
C14_All5xxLeavesCacheAsItWas ==
  AllEndpoints5xx =>
    /\ fetchRes.result.status = "NoSpendableUtxos"
    /\ fetchRes.writes = <<>>
    /\ fetchRes.acc.utxos = fetchArgs.acc.utxos
    /\ fetchRes.acc.initialized = fetchArgs.acc.initialized

\* All endpoints answer 5xx on an accessor holding an earlier set: the set stays.
C14_All5xxOnFilledCache ==
  /\ AllEndpoints5xx
  /\ fetchRes.result.status = "NoSpendableUtxos"
  /\ fetchRes.acc.utxos # <<>>

\* ---- C15 (Spec) ----
\* C15: initialize() on an accessor that is already initialized succeeds and leaves it
\* initialized and its cache unchanged, whatever the endpoints answer during it.
C15_InitializeIdempotent ==
  [][ (pc = "idle" /\ initialized /\ call'.op = "initialize") =>
        /\ result'.status = "ok"
        /\ initialized'
        /\ utxos' = utxos ]_vars

\* ---- C16 (Spec) ----
\* C16: disconnect() can be called in every state in which the caller is not inside
\* another call, also when initialize() was never called or failed; it succeeds,
\* after it the cache is empty and the accessor is not initialized, and a second
\* disconnect() changes nothing.
C16_DisconnectAlwaysSucceeds ==
  /\ [](pc = "idle" => ENABLED (Disconnect /\ AccOnly))
  /\ [][ (pc = "idle" /\ call'.op = "disconnect") =>
            /\ result'.status = "ok"
            /\ pc' = "idle"
            /\ utxos' = <<>>
            /\ ~initialized'
            /\ (call.op = "disconnect" =>
                  /\ utxos' = utxos
                  /\ initialized' = initialized
                  /\ result' = result) ]_vars

\* disconnect() has just succeeded.
C16_Disconnected ==
  /\ call.op = "disconnect"
  /\ result.status = "ok"
  /\ utxos = <<>>
  /\ ~initialized

\* ---- C17 (Spec) ----
\* A step that ends a fetchBalance call.
EndsFetch == call.op = "fetchBalance" /\ pc # "idle" /\ pc' = "idle"

\* sub is seq with some of its entries left out.
RECURSIVE IsSubSeq(_, _)
IsSubSeq(sub, seq) ==
  IF sub = <<>> THEN TRUE
  ELSE IF seq = <<>> THEN FALSE
  ELSE IF Head(sub) = Head(seq) THEN IsSubSeq(Tail(sub), Tail(seq))
  ELSE IsSubSeq(sub, Tail(seq))

\* What one step may do to the cache.
CacheStep ==
  /\ (pc = "idle" /\ call'.op = "getUtxos") =>
       (result'.list = utxos /\ utxos' = utxos)
  /\ (pc = "idle" /\ call'.op = "disconnect") => utxos' = <<>>
  /\ (pc = "idle" /\ call'.op \in {"initialize", "calculateBalance", "fetchBalance"}) =>
       utxos' = utxos
  /\ (EndsFetch /\ result'.status = "ok") =>
       /\ pc = "verify"
       /\ utxos' # <<>>
       /\ IsSubSeq(utxos', pending)
       /\ result'.balance = SumValues(utxos')
  /\ (EndsFetch /\ result'.status # "ok") => utxos' = utxos
  /\ (pc # "idle" /\ pc' # "idle") => utxos' = utxos

\* C17: the cache is empty after construction, is replaced only by a fetchBalance
\* that succeeds (with entries of its confirmed set) and emptied only by disconnect, so that
\* getUtxos() returns the set of the last successful fetchBalance since construction
\* or the last disconnect; a failed fetchBalance, a failed or repeated initialize and
\* getUtxos leave the cache unchanged.
C17_GetUtxosIsLastStoredSet ==
  /\ [](call.op = "new" => utxos = <<>>)
  /\ [][CacheStep]_vars

\* getUtxos() returning the set of an earlier fetchBalance after a later initialize
\* failed.
C17_ReturnedAfterFailedInitialize ==
  /\ call.op = "getUtxos"
  /\ Len(result.list) = 2
  /\ result.list = utxos
  /\ ~initialized

\* ---- C18 (SpecFees) ----
\* The answer of the fee endpoint is a failure: the request timed out, errored or was
\* answered with an error status, or the body is empty, or it is malformed (a rate is
\* missing or is no positive number).
FeeAnswerFailed ==
  \/ feeArgs.resp.kind \in {"timeout", "error", "non2xx", "empty"}
  \/ /\ feeArgs.resp.kind = "data"
     /\ \/ feeArgs.resp.minimumFee <= 0
        \/ feeArgs.resp.halfHourFee <= 0
        \/ feeArgs.resp.fastestFee <= 0

\* C18: for btc and btctestnet fetchGasFees never throws and never returns null, and
\* when the fee request times out, errors, is answered non-200 or with an empty or
\* malformed body it returns the hardcoded default rates of the network.
C18_DefaultsOnAnyFailure ==
  feeRes.status # "none" =>
    /\ feeRes.status = "returned"
    /\ ~feeRes.fees.isNull
    /\ FeeAnswerFailed => feeRes.fees = GasDefaults(feeArgs.network)

\* ---- C19 (SpecPsbt) ----
\* C19: CreatePsbt rejects the request with the invalid-UTXO-set error whenever utxos
\* is missing, empty or holds a UTXO whose value is zero, negative or missing, before
\* any input or output is added and before anything is signed.
C19_InvalidUtxoSetRejectedFirst ==
  (PsbtDone /\ ~ArgsUtxosValid) =>
     /\ psbtRes.status = "InvalidUtxoSet"
     /\ psbtRes.txInputs = <<>>
     /\ psbtRes.txOutputs = <<>>
     /\ psbtRes.signed = 0
     /\ ~psbtRes.returned

\* A set of a good and a negative entry, whose sum would cover amount and fee, is
\* rejected.
C19_NegativeValueAmongGood ==
  /\ psbtRes.status = "InvalidUtxoSet"
  /\ Len(psbtArgs.details.utxos) = 2
  /\ psbtArgs.details.utxos[1].value = 50000
  /\ psbtArgs.details.utxos[2].value = -5
  /\ ArgsAmount = 29000
  /\ psbtArgs.wif = "mainnet"
  /\ psbtArgs.details.network = "btc"

\* ---- C20 (SpecPsbt) ----
\* The version byte of the network's WIF keys.
WifOf(n) == IF n = "btc" THEN "mainnet" ELSE "testnet"

AlternateOf(n) == IF n = "btc" THEN "btctestnet" ELSE "btc"

\* The build got as far as the decoding of the key.
ReachedKeyDecode ==
  /\ PsbtDone
  /\ ArgsUtxosValid
  /\ ArgsTotalInput >= ArgsAmount + SpecifiedFee(ArgsRate)

\* C20: a key that does not decode against the version byte of the requested network
\* is decoded against that of the alternate network before the build fails; the build
\* fails with the key-decode error only if the key decodes against neither, and then
\* no raw transaction is returned.
C20_AlternateNetworkKeyAccepted ==
  /\ ReachedKeyDecode =>
       IF psbtArgs.wif \in {WifOf(psbtArgs.details.network),
                            WifOf(AlternateOf(psbtArgs.details.network))}
       THEN psbtRes.status = "ok" /\ psbtRes.returned
       ELSE psbtRes.status \in {"KeyDecodeBothFailed", "KeyDecodeFailed"}
  /\ psbtRes.status \in {"KeyDecodeBothFailed", "KeyDecodeFailed"} =>
       /\ psbtArgs.wif \notin {"mainnet", "testnet"}
       /\ ~psbtRes.returned
       /\ psbtRes.signed = 0
  /\ (ReachedKeyDecode /\ psbtArgs.wif = "otherPrefix") =>
       psbtRes.status = "KeyDecodeBothFailed"

\* A testnet key given for a btc build: the build succeeds.
C20_TestnetKeyOnMainnet ==
  /\ psbtRes.status = "ok"
  /\ psbtRes.returned
  /\ psbtArgs.details.network = "btc"
  /\ psbtArgs.wif = "testnet"

\* ---- C21 ----
OwnedBy(list, addr) == \A i \in 1..Len(list) : list[i] \in OutputsOf(addr)

\* Caller c's fetchBalance returns successfully in this step.
CompletesFetch(c) ==
  /\ callers[c].pc = "verify"
  /\ callers'[c].pc = "idle"
  /\ callers'[c].fetched.status = "ok"

SharedCacheStep ==
  /\ \A c \in Callers :
       CompletesFetch(c) =>
         /\ utxos' # <<>>
         /\ IsSubSeq(utxos', callers[c].pending)
         /\ OwnedBy(utxos', callers[c].addr)
         /\ callers'[c].fetched.balance = SumValues(utxos')
  /\ utxos' # utxos =>
       \/ \E c \in Callers : CompletesFetch(c)
       \/ call'.op = "disconnect" /\ utxos' = <<>>
  /\ \A c \in Callers :
       (callers'[c] # callers[c] /\ callers'[c].op = "getUtxos") => callers'[c].got = utxos

\* C21: on an accessor instance shared by two callers, the cache holds only the set of
\* the successful fetchBalance that completed last, whoever made it: a completing
\* fetchBalance replaces the whole cache by its own verified set, nothing else fills
\* the cache, the cache never mixes outputs of two addresses, and getUtxos hands the
\* caller the cache as it is at that moment, so what a caller reads after its own
\* fetchBalance is the set of whichever address was fetched last.
C21_CacheHoldsLastCompletedFetch ==
  /\ [](\E a \in Addresses : OwnedBy(utxos, a))
  /\ [](\A c \in Callers : \E a \in Addresses : OwnedBy(callers[c].got, a))
  /\ [][SharedCacheStep]_vars

\* Caller c1 fetched address A successfully, caller c2 fetched address B successfully
\* after it, and c1's getUtxos returned outputs of address B.
C21_CallerForAHoldsUtxosOfB ==
  /\ callers["c1"].op = "getUtxos"
  /\ callers["c1"].addr = "addrA"
  /\ callers["c1"].fetched.status = "ok"
  /\ callers["c1"].got # <<>>
  /\ OwnedBy(callers["c1"].got, "addrB")
  /\ callers["c2"].addr = "addrB"
  /\ callers["c2"].fetched.status = "ok"

\* ---- C22 ----
Entered(i) == sends.inv[i].pc # "new"

\* Invocation i holds an instance of its own network that no other invocation holds.
OwnInstance(i) ==
  /\ sends.inv[i].inst \in 1..Len(sends.instances)
  /\ sends.instances[sends.inv[i].inst].network = sends.inv[i].args.details.network
  /\ \A j \in Invocations \ {i} : Entered(j) => sends.inv[j].inst # sends.inv[i].inst

\* What invocation i handed to the builder is its own instance's cache, validated,
\* and consists of outputs of its own sender address.
BuiltFromOwnFetch(i) ==
  LET r == sends.inv[i]
      own == sends.instances[r.inst].utxos
  IN /\ r.res.rawTx.ins = TxInputs(SelectSeq(own, IsValidUtxo))
     /\ OwnedBy(own, r.args.details.address)

SendsStep ==
  /\ \A i \in Invocations :
       sends'.inv[i] # sends.inv[i] =>
         /\ \A j \in Invocations \ {i} : sends'.inv[j] = sends.inv[j]
         /\ Entered(i) => /\ sends'.inv[i].args = sends.inv[i].args
                          /\ sends'.inv[i].inst = sends.inv[i].inst
                          /\ sends'.inv[i].fetched = sends.inv[i].fetched
  /\ Len(sends'.instances) >= Len(sends.instances)
  /\ \A k \in 1..Len(sends.instances) : sends'.instances[k] = sends.instances[k]

RECURSIVE KeptAnswers(_, _, _)
KeptAnswers(list, answers, i) ==
  IF i > Len(list) THEN <<>>
  ELSE (IF OutputStatus(list[i], answers[i]) = "unspent" THEN <<answers[i]>> ELSE <<>>)
       \o KeptAnswers(list, answers, i + 1)

FiltersIdempotentOn(e) ==
  LET confirmedUtxos == ConfirmedFilter(e.resp.data)
      spendableUtxos == verifySpendableUtxos(confirmedUtxos, e.answers)
      again == KeptAnswers(confirmedUtxos, e.answers, 1)
  IN /\ ConfirmedFilter(confirmedUtxos) = confirmedUtxos
     /\ ConfirmedFilter(spendableUtxos) = spendableUtxos
     /\ verifySpendableUtxos(spendableUtxos, again) = spendableUtxos

\* C23: for every endpoint answer a fetchBalance call filtered, the confirmed-shape
\* filter applied to the filtered list gives that list again, and verifySpendableUtxos
\* applied to its own result, with the lookups answering as before, gives that result
\* again, entry for entry in the same order; the set the call cached is a fixed point
\* of both.
C23_FiltersIdempotent ==
  FetchDone =>
    /\ \A k \in 1..Len(fetchRes.queried) :
         LET e == fetchArgs.explorer[fetchRes.queried[k]]
         IN e.resp.kind = "array" => FiltersIdempotentOn(e)
    /\ fetchRes.result.status = "ok" =>
         /\ ConfirmedFilter(fetchRes.acc.utxos) = fetchRes.acc.utxos
         /\ verifySpendableUtxos(fetchRes.acc.utxos,
                                 [k \in 1..Len(fetchRes.acc.utxos) |-> "unspent"])
              = fetchRes.acc.utxos

\* The call filtered two answers: the first lost an unconfirmed entry to the
\* confirmed filter and its other entry to verification, the second lost one of two
\* entries to verification and the remaining one was cached.
C23_BothFiltersDropped ==
  /\ FetchDone
  /\ fetchRes.result.status = "ok"
  /\ fetchRes.queried = <<1, 2>>
  /\ Len(ConfirmedFilter(fetchArgs.explorer[1].resp.data)) = 1
  /\ Len(fetchArgs.explorer[1].resp.data) = 2
  /\ Len(ConfirmedFilter(fetchArgs.explorer[2].resp.data)) = 2
  /\ Len(fetchRes.acc.utxos) = 1

\* ---- C24 (Spec) ----
\* C24: the cache never holds two entries with the same (txid, vout), whatever the
\* endpoints answer, so no output is counted twice in a balance.
C24_CacheHasNoDuplicateOutput ==
  \A i, j \in 1..Len(utxos) :
    (utxos[i].txid = utxos[j].txid /\ utxos[i].vout = utxos[j].vout) => i = j

\* ---- C25 (SpecSend) ----
SendDone == sendRes.status # "none"

CountOf(seq, x) == Cardinality({k \in 1..Len(seq) : seq[k] = x})

\* The failures that precede the broadcast: of fetchBalance, of the checks on the
\* cached UTXOs, of the funds pre-check, of the fee lookup and of the build.
FailsBeforeBroadcast(status) ==
  status \in {"NotInitialized", "NoSpendableUtxos", "NoUtxosFound", "NoValidUtxos",
              "InsufficientFunds", "NoGasFees", "InvalidUtxoSet", "KeyDecodeFailed",
              "KeyDecodeBothFailed"}

C26_ReturnsIdOfFirst200 ==
  \A i \in 1..Len(bcast.log) :
    (bcast.log[i].fault = "none" /\ bcast.log[i].status = 200) =>
      /\ i = Len(bcast.log)
      /\ bcast.pc = "done"
      /\ bcast.result.status = "ok"
      /\ bcast.result.detail.body = bcast.log[i].body
      /\ ~bcast.result.detail.stringified

\* ---- C27 (SpecPsbt) ----
ArgsKeyDecodes == wifToPrivateKey(psbtArgs.wif, psbtArgs.details.network) = "decoded"

ArgsFundsShort ==
  ArgsTotalInput < ArgsAmount + SpecifiedFee(ArgsRate)

\* C27: CreatePsbt reports the failure of the earliest failing check in the order
\* UTXO-set validation, signing-key decode, sufficient-funds check: an invalid set is
\* reported whatever the key and the funds, an undecodable key is reported whatever
\* the funds, and insufficient funds are reported only for a valid set and a key that
\* decodes.
C27_ErrorOfEarliestCheck ==
  PsbtDone =>
    /\ ~ArgsUtxosValid => psbtRes.status = "InvalidUtxoSet"
    /\ (ArgsUtxosValid /\ ~ArgsKeyDecodes) =>
         psbtRes.status \in {"KeyDecodeFailed", "KeyDecodeBothFailed"}
    /\ (ArgsUtxosValid /\ ArgsKeyDecodes /\ ArgsFundsShort) =>
         psbtRes.status = "InsufficientFunds"

\* ---- C28 (Spec) ----
FlagStep ==
  /\ (pc = "idle" /\ call'.op = "initialize") =>
       /\ result'.status \in {"ok", "InitFailed"}
       /\ initialized' <=> result'.status = "ok"
       /\ result'.status = "ok" => reqs' \in 1..NumEndpoints(network)
       /\ result'.status = "InitFailed" => reqs' = NumEndpoints(network)
  /\ (pc = "idle" /\ call'.op = "disconnect") => ~initialized'
  /\ (pc # "idle" \/ call'.op \in {"fetchBalance", "getUtxos", "calculateBalance"}) =>
       initialized' = initialized

\* C28: on an accessor used by one caller, the flag is false after construction; an
\* initialize() call sets it to whether that call succeeded, so a call whose probes
\* all fail leaves it false; disconnect() clears it; and no step of fetchBalance,
\* getUtxos or calculateBalance changes it.  Hence the flag is true exactly when the
\* last completed initialize() succeeded and no disconnect() followed it.
C28_FlagIsLastInitializeOutcome ==
  /\ [](call.op = "new" => ~initialized)
  /\ [](call.op = "initialize" => (initialized <=> result.status = "ok"))
  /\ [](call.op = "disconnect" => ~initialized)
  /\ [][FlagStep]_vars

\* An initialize() whose probes all failed, on an accessor holding a cache from the
\* time it was initialized: the flag is false again.
C28_FailedInitializeAfterUse ==
  /\ call.op = "initialize"
  /\ result.status = "InitFailed"
  /\ ~initialized
  /\ utxos # <<>>

\* ---- C29 (SpecPsbt) ----
RECURSIVE SumAmounts(_)
SumAmounts(seq) ==
  IF seq = <<>> THEN 0 ELSE Head(seq).amount + SumAmounts(Tail(seq))

\* What the returned transaction pays to the miners: inputs minus outputs.
FeePaid == SumAmounts(psbtRes.txInputs) - SumAmounts(psbtRes.txOutputs)

HasChangeOutput == Len(psbtRes.txOutputs) = 2

\* C29: for every transaction CreatePsbt returns, the outputs do not exceed the
\* inputs; the fee paid is the reported totalFee when there is a change output, and
\* otherwise the reported totalFee plus a leftover of 0 to 546 satoshis.
C29_FeePaidCoversReportedFee ==
  (PsbtDone /\ psbtRes.status = "ok") =>
     /\ psbtRes.returned
     /\ Len(psbtRes.txOutputs) \in {1, 2}
     /\ SumAmounts(psbtRes.txOutputs) <= SumAmounts(psbtRes.txInputs)
     /\ FeePaid >= psbtRes.totalFee
     /\ HasChangeOutput => FeePaid = psbtRes.totalFee
     /\ ~HasChangeOutput => (FeePaid - psbtRes.totalFee) \in 0..546

\* A returned transaction without change output whose leftover of exactly 546
\* satoshis went to the fee.
C29_LeftoverAtThresholdPaidAsFee ==
  /\ PsbtDone
  /\ psbtRes.status = "ok"
  /\ ~HasChangeOutput
  /\ psbtRes.totalFee = 1000
  /\ FeePaid = 1546

\* ---- C30 (Spec) ----
BalanceStep ==
  /\ (pc = "verify" /\ pc' = "idle" /\ result'.status = "ok") =>
       /\ utxos' # <<>>
       /\ result'.balance = calculateBalance(utxos')
       /\ result'.balance = SumValues(SelectSeq(utxos', IsValidUtxo))
  /\ (FetchSucceeded /\ call'.op = "getUtxos") =>
       /\ result'.list = utxos
       /\ calculateBalance(result'.list) = result.balance
  /\ (FetchSucceeded /\ call'.op = "calculateBalance" /\ call'.data = utxos) =>
       result'.balance = result.balance

\* C30: the step in which a fetchBalance returns successfully leaves in the cache
\* exactly the set whose values sum to the returned balance; a getUtxos() made next
\* returns that set, calculateBalance of it is the returned balance, and so is the
\* total of the entries the send flow accepts as valid.
C30_ReturnedBalanceIsCacheSum ==
  /\ [](FetchSucceeded => result.balance = calculateBalance(utxos))
  /\ [][BalanceStep]_vars

\* getUtxos() on an initialized accessor after a successful fetchBalance: the set read
\* is the cache, one entry of 50,000 satoshis.
C30_ReadBackAfterFetch ==
  /\ pc = "idle"
  /\ call.op = "getUtxos"
  /\ initialized
  /\ Len(result.list) = 1
  /\ result.list = utxos
  /\ SumValues(result.list) = 50000

====
